---- MODULE Spec2Model ----
(***************************************************************************)
(* Model of the job-resume matcher: JobMatcher.evaluate_match              *)
(* (src/src/matcher.py) and the concurrent driver process_job / main       *)
(* (src/streamlit_app.py).                                                 *)
(*                                                                         *)
(* A text is a sequence of symbols.  A symbol stands for one character or  *)
(* for one lexeme that every string operation of the code treats as a      *)
(* unit (a JSON string literal, a keyword, a fence marker); len(text) is   *)
(* Len.  The texts of the budgeting specification are character for        *)
(* character; the texts of the evaluation specification are lexemes and    *)
(* stay far below the token ceiling.                                       *)
(***************************************************************************)
EXTENDS Integers, Sequences, FiniteSets, TLC

VARIABLES
    pc,            \* position of the evaluation (the states of spec 4.6)
    in_resume,     \* evaluate_match's argument resume, as passed
    in_job,        \* evaluate_match's argument job_posting, as passed
    resume,        \* local resume (rebound by budgeting)
    job_posting,   \* local job_posting (rebound by budgeting)
    extract_out,   \* what the first generator call did
    profile,       \* what the profile stage computed (its locals)
    prompt,        \* the prompt handed to the second generator call
    match_out,     \* what the second generator call did
    result,        \* what evaluate_match returned
    calls,         \* the generator calls made so far, in order
    tasks,         \* streamlit_app: per job, the state of its process_job task
    notified,      \* streamlit_app: notifier.send_match calls, in order
    reported,      \* streamlit_app: (job, result) pairs main has written, in order
    main_pc,       \* streamlit_app: position of main's as_completed loop
    completed      \* streamlit_app: the finished tasks as_completed has yet to yield

evalVars == <<pc, in_resume, in_job, resume, job_posting, extract_out, profile,
              prompt, match_out, result, calls>>
appVars == <<tasks, notified, reported, main_pc, completed>>
vars == <<pc, in_resume, in_job, resume, job_posting, extract_out, profile,
          prompt, match_out, result, calls, tasks, notified, reported, main_pc,
          completed>>

Min(a, b) == IF a <= b THEN a ELSE b
Max(a, b) == IF a >= b THEN a ELSE b

(***************************************************************************)
(* Python string slices on texts.                                          *)
(***************************************************************************)
\* text[:n], n >= 0
PyPrefix(text, n) == SubSeq(text, 1, Min(n, Len(text)))
\* text[n:], n >= 0
PyFrom(text, n) == SubSeq(text, Min(n, Len(text)) + 1, Len(text))
\* text[-n:], n >= 0; text[-0:] is text[0:], the whole text
PySuffix(text, n) ==
    IF n = 0 THEN text ELSE SubSeq(text, Max(Len(text) - n, 0) + 1, Len(text))
\* text[:-n], n > 0
PyDropLast(text, n) == SubSeq(text, 1, Max(Len(text) - n, 0))
\* text[a:b+1] for 0-based a <= b
PySlice(text, a, b) == SubSeq(text, a + 1, Min(b + 1, Len(text)))

(***************************************************************************)
(* Input budgeting: matcher.py 12-50.                                      *)
(***************************************************************************)
max_total_tokens == 6000

\* "\n[...content truncated...]\n", character by character (27 characters)
TruncationMarker ==
    <<"\n", "[", ".", ".", ".", "c", "o", "n", "t", "e", "n", "t", " ",
      "t", "r", "u", "n", "c", "a", "t", "e", "d", ".", ".", ".", "]", "\n">>

_truncate_text(text, max_chars) ==
    IF Len(text) <= max_chars
    THEN text
    ELSE LET half_length == max_chars \div 2
         IN  PyPrefix(text, half_length) \o TruncationMarker
               \o PySuffix(text, half_length)

_estimate_tokens_chars(text) == Len(text)

_estimate_tokens(text) == Len(text) \div 4

\* int(length * reduction_factor) with reduction_factor the double
\* max_total_tokens / total.  The exact product length*6000/total is a
\* rational with denominator total; two roundings of relative error 2^-53
\* move it by less than 1/total, so the double's floor is the exact floor
\* unless the exact product is an integer q, where the double may land just
\* below q: both outcomes are kept.
ScaledChars(length, total) ==
    LET q == (length * max_total_tokens) \div total
    IN  IF (length * max_total_tokens) % total = 0 /\ q > 0
        THEN {q - 1, q}
        ELSE {q}

\* Lines 32-50: the (resume, job_posting) pairs budgeting may hand on.
Budgeted(r, j) ==
    LET resume_tokens == _estimate_tokens(r)
        job_tokens == _estimate_tokens(j)
    IN  IF resume_tokens + job_tokens > max_total_tokens
        THEN { <<_truncate_text(r, max_resume_chars),
                 _truncate_text(j, max_job_chars)>> :
                 <<max_resume_chars, max_job_chars>> \in
                    ScaledChars(Len(r), resume_tokens + job_tokens)
                      \X ScaledChars(Len(j), resume_tokens + job_tokens) }
        ELSE { <<r, j>> }

(***************************************************************************)
(* JSON values, as json.loads builds them.  Every value is a tagged record *)
(* so that values of different Python types compare unequal.  A dict keeps *)
(* its keys in insertion order (keys) beside the mapping (d).              *)
(***************************************************************************)
JNull == [t |-> "null"]
JBool(b) == [t |-> "bool", b |-> b]
JNum(n) == [t |-> "num", n |-> n]
JStr(s) == [t |-> "str", s |-> s]
JList(items) == [t |-> "list", items |-> items]
JDict(keys, d) == [t |-> "dict", keys |-> keys, d |-> d]
EmptyDict == JDict(<<>>, <<>>)

\* dict[k] = v
DictPut(dict, k, v) ==
    IF k \in DOMAIN dict.d
    THEN JDict(dict.keys, [dict.d EXCEPT ![k] = v])
    ELSE JDict(Append(dict.keys, k), dict.d @@ (k :> v))

IsDict(v) == v.t = "dict"
HasKey(v, k) == IsDict(v) /\ k \in DOMAIN v.d
\* dict.get(k), None when absent
DictGet(dict, k) == IF k \in DOMAIN dict.d THEN dict.d[k] ELSE JNull

\* Python truth value of a JSON value
Truthy(v) ==
    CASE v.t = "null" -> FALSE
      [] v.t = "bool" -> v.b
      [] v.t = "num"  -> v.n # 0
      [] v.t = "str"  -> v.s # ""
      [] v.t = "list" -> v.items # <<>>
      [] v.t = "dict" -> v.keys # <<>>

\* len(v) is defined (else TypeError)
Sized(v) == v.t \in {"str", "list", "dict"}

(***************************************************************************)
(* Lexemes of generator responses.                                         *)
(***************************************************************************)
Whitespace == {" ", "\n"}

\* matcher.py 169-180 (and its copy 206-217): the curated vocabulary, in order
tech_keywords ==
    <<"Python", "JavaScript", "TypeScript", "Java", "C#", "C++", "Go", "Ruby", "PHP", "Swift",
      "React", "Angular", "Vue", "Node.js", "Express", "Django", "Flask", "Spring", "ASP.NET",
      "HTML", "CSS", "SASS", "LESS", "Bootstrap", "Tailwind", "Material UI",
      "AWS", "Azure", "GCP", "Firebase", "Heroku", "Netlify", "Vercel",
      "Docker", "Kubernetes", "CI/CD", "Jenkins", "GitHub Actions", "GitLab CI",
      "SQL", "MySQL", "PostgreSQL", "MongoDB", "DynamoDB", "Redis", "Elasticsearch",
      "REST API", "GraphQL", "WebSockets", "gRPC",
      "Git", "GitHub", "GitLab", "Bitbucket",
      "TensorFlow", "PyTorch", "Scikit-learn", "Pandas", "NumPy",
      "Agile", "Scrum", "Kanban", "Jira", "Confluence">>

Range(seq) == {seq[i] : i \in DOMAIN seq}

\* the Python strs that occur as JSON strings in the model
PyStrings ==
    {"is_match", "IS_MATCH", "match_percentage", "matching_skills", "missing_skills",
     "reason", "r", "yes", "", "ExplicitSkills", "InferredSkills", "Experience",
     "Education", "YearsOfExperience", "ProjectTypes", "Acme - Dev",
     "Unable to parse skills", "Unable to parse experience",
     "Unable to parse education", "Unknown", "Software Development", "REST APIs"}
    \cup Range(tech_keywords)

\* the JSON string literal of a str (no character of PyStrings needs escaping)
Quote(s) == "\"" \o s \o "\""

\* JSON string literals (quotes included) and the Python str they denote
StringValue ==
    [tok \in {Quote(s) : s \in PyStrings} |-> CHOOSE s \in PyStrings : Quote(s) = tok]

\* JSON number literals and the int they denote
NumberValue == ("0" :> 0) @@ ("5" :> 5) @@ ("30" :> 30) @@ ("60" :> 60) @@ ("80" :> 80)

\* an integer literal of more digits than int() converts (more than 4300):
\* the scanner's int(...) raises ValueError, not JSONDecodeError
OverlongIntegers == {"9999...(5000 digits)"}

JSONDecodeError == [ok |-> FALSE, err |-> "JSONDecodeError"]
ValueError == [ok |-> FALSE, err |-> "ValueError"]
Parsed(v, next) == [ok |-> TRUE, v |-> v, next |-> next]

\* index of the first non-whitespace symbol at or after i (Len+1 when none)
SkipWs(text, i) ==
    LET rest == {k \in i..Len(text) : text[k] \notin Whitespace}
    IN  IF rest = {} THEN Len(text) + 1
        ELSE CHOOSE k \in rest : \A m \in rest : k <= m

RECURSIVE ParseValue(_, _)
RECURSIVE ParseMembers(_, _, _)
RECURSIVE ParseElements(_, _, _)

\* json's scanner at position i: one value, or the error it raises
ParseValue(text, i) ==
    IF i > Len(text) THEN JSONDecodeError
    ELSE LET tok == text[i] IN
         CASE tok = "{" ->
                LET j == SkipWs(text, i + 1) IN
                IF j <= Len(text) /\ text[j] = "}"
                THEN Parsed(EmptyDict, j + 1)
                ELSE ParseMembers(text, j, EmptyDict)
           [] tok = "[" ->
                LET j == SkipWs(text, i + 1) IN
                IF j <= Len(text) /\ text[j] = "]"
                THEN Parsed(JList(<<>>), j + 1)
                ELSE ParseElements(text, j, <<>>)
           [] tok \in DOMAIN StringValue -> Parsed(JStr(StringValue[tok]), i + 1)
           [] tok \in DOMAIN NumberValue -> Parsed(JNum(NumberValue[tok]), i + 1)
           [] tok \in OverlongIntegers -> ValueError
           [] tok = "true" -> Parsed(JBool(TRUE), i + 1)
           [] tok = "false" -> Parsed(JBool(FALSE), i + 1)
           [] tok = "null" -> Parsed(JNull, i + 1)
           [] OTHER -> JSONDecodeError

\* the members of an object from position j (a key is expected there)
ParseMembers(text, j, acc) ==
    IF j > Len(text) \/ text[j] \notin DOMAIN StringValue THEN JSONDecodeError
    ELSE LET key == StringValue[text[j]]
             colon == SkipWs(text, j + 1)
         IN  IF colon > Len(text) \/ text[colon] # ":" THEN JSONDecodeError
             ELSE LET val == ParseValue(text, SkipWs(text, colon + 1)) IN
                  IF ~val.ok THEN val
                  ELSE LET m == SkipWs(text, val.next)
                           acc2 == DictPut(acc, key, val.v)
                       IN  IF m > Len(text) THEN JSONDecodeError
                           ELSE IF text[m] = "}" THEN Parsed(acc2, m + 1)
                           ELSE IF text[m] = ","
                                THEN ParseMembers(text, SkipWs(text, m + 1), acc2)
                                ELSE JSONDecodeError

\* the elements of an array from position j (a value is expected there)
ParseElements(text, j, acc) ==
    LET val == ParseValue(text, j) IN
    IF ~val.ok THEN val
    ELSE LET m == SkipWs(text, val.next)
             acc2 == Append(acc, val.v)
         IN  IF m > Len(text) THEN JSONDecodeError
             ELSE IF text[m] = "]" THEN Parsed(JList(acc2), m + 1)
             ELSE IF text[m] = ","
                  THEN ParseElements(text, SkipWs(text, m + 1), acc2)
                  ELSE JSONDecodeError

\* json.loads(text): [ok |-> TRUE, v |-> value] or the exception raised
json_loads(text) ==
    LET val == ParseValue(text, SkipWs(text, 1)) IN
    IF ~val.ok THEN val
    ELSE IF SkipWs(text, val.next) <= Len(text) THEN JSONDecodeError
         ELSE val

(***************************************************************************)
(* json.dumps(value, indent=2)                                             *)
(***************************************************************************)
NumberLiteral(n) == CHOOSE tok \in DOMAIN NumberValue : NumberValue[tok] = n
Indent(depth) == [i \in 1..(2 * depth) |-> " "]

RECURSIVE json_dumps(_, _)
RECURSIVE DumpItems(_, _, _)
RECURSIVE DumpMembers(_, _, _)

json_dumps(v, depth) ==
    CASE v.t = "null" -> <<"null">>
      [] v.t = "bool" -> IF v.b THEN <<"true">> ELSE <<"false">>
      [] v.t = "num"  -> <<NumberLiteral(v.n)>>
      [] v.t = "str"  -> <<Quote(v.s)>>
      [] v.t = "list" ->
            IF v.items = <<>> THEN <<"[", "]">>
            ELSE <<"[">> \o DumpItems(v.items, 1, depth + 1)
                   \o <<"\n">> \o Indent(depth) \o <<"]">>
      [] v.t = "dict" ->
            IF v.keys = <<>> THEN <<"{", "}">>
            ELSE <<"{">> \o DumpMembers(v, 1, depth + 1)
                   \o <<"\n">> \o Indent(depth) \o <<"}">>

DumpItems(items, i, depth) ==
    IF i > Len(items) THEN <<>>
    ELSE <<"\n">> \o Indent(depth) \o json_dumps(items[i], depth)
           \o (IF i < Len(items) THEN <<",">> ELSE <<>>)
           \o DumpItems(items, i + 1, depth)

DumpMembers(dict, i, depth) ==
    IF i > Len(dict.keys) THEN <<>>
    ELSE <<"\n">> \o Indent(depth) \o <<Quote(dict.keys[i]), ":", " ">>
           \o json_dumps(dict.d[dict.keys[i]], depth)
           \o (IF i < Len(dict.keys) THEN <<",">> ELSE <<>>)
           \o DumpMembers(dict, i + 1, depth)

(***************************************************************************)
(* Response normalisation: matcher.py 117-140 and its copy 306-329.        *)
(***************************************************************************)
\* str.strip()
Strip(text) ==
    LET keep == {k \in 1..Len(text) : text[k] \notin Whitespace}
    IN  IF keep = {} THEN <<>>
        ELSE SubSeq(text, CHOOSE k \in keep : \A m \in keep : k <= m,
                          CHOOSE k \in keep : \A m \in keep : k >= m)

StartsWith(text, p) == Len(text) >= Len(p) /\ SubSeq(text, 1, Len(p)) = p
EndsWith(text, p) ==
    Len(text) >= Len(p) /\ SubSeq(text, Len(text) - Len(p) + 1, Len(text)) = p

\* str.find(c) and str.rfind(c): 0-based index, -1 when absent
Find(text, c) ==
    LET at == {k \in 1..Len(text) : text[k] = c}
    IN  IF at = {} THEN -1 ELSE (CHOOSE k \in at : \A m \in at : k <= m) - 1
RFind(text, c) ==
    LET at == {k \in 1..Len(text) : text[k] = c}
    IN  IF at = {} THEN -1 ELSE (CHOOSE k \in at : \A m \in at : k >= m) - 1

\* the code-fence marker, three backquotes (written with apostrophes: a
\* TLA+ string holds no backquote), 3 characters
Fence == <<"'''">>
\* the fence marker with its json hint, 7 characters
FenceJson == <<"'''", "json">>

\* the brace slice that keeps the closing brace out (text[start:end])
BraceSliceExclusive(text) ==
    LET start_idx == Find(text, "{")
        end_idx == RFind(text, "}")
    IN  IF start_idx # -1 /\ end_idx # -1 /\ end_idx > start_idx
        THEN PySlice(text, start_idx, end_idx - 1)
        ELSE text

\* lines 131-136 / 320-325: text[start_idx:end_idx+1]
BraceSlice(text) ==
    LET start_idx == Find(text, "{")
        end_idx == RFind(text, "}")
    IN  IF start_idx # -1 /\ end_idx # -1 /\ end_idx > start_idx
        THEN PySlice(text, start_idx, end_idx)
        ELSE text

NormalizeResponse(raw) ==
    LET stripped == Strip(raw)
        unfenced == IF StartsWith(stripped, FenceJson)
                    THEN PyFrom(stripped, Len(FenceJson))
                    ELSE IF StartsWith(stripped, Fence)
                         THEN PyFrom(stripped, Len(Fence))
                         ELSE stripped
        untailed == IF EndsWith(unfenced, Fence)
                    THEN PyDropLast(unfenced, Len(Fence))
                    ELSE unfenced
    IN  Strip(BraceSlice(untailed))

(***************************************************************************)
(* Case folding and substring tests on lexemes.                            *)
(***************************************************************************)
\* str.lower() of the lexemes that have upper-case letters
LowerCase ==
    ("Match" :> "match") @@ ("Good Fit" :> "good fit") @@ ("Strong Match" :> "strong match")
    @@ ("TRUE" :> "true") @@ ("True" :> "true") @@ ("\"IS_MATCH\"" :> "\"is_match\"")
    @@ ("Sure" :> "sure") @@ ("Hope" :> "hope")
    @@ ("Jane" :> "jane") @@ ("Doe" :> "doe")
    @@ ("SKILLS" :> "skills") @@ ("Skills" :> "skills")
    @@ ("TECHNICAL" :> "technical") @@ ("TOOLS" :> "tools")
    @@ ("PYTHON" :> "python") @@ ("Python" :> "python")
    @@ ("JavaScript" :> "javascript") @@ ("Java" :> "java")
    @@ ("GitHub" :> "github") @@ ("Git" :> "git")

LowerSym(sym) == IF sym \in DOMAIN LowerCase THEN LowerCase[sym] ELSE sym
Lower(text) == [i \in DOMAIN text |-> LowerSym(text[i])]

\* the phrases that occur strictly inside a (lower-case) lexeme
Substrings ==
    ("strong match" :> {"match"}) @@ ("\"is_match\"" :> {"match"})
    @@ ("\"match_percentage\"" :> {"match"})
    @@ ("javascript" :> {"java"}) @@ ("github" :> {"git"})

PartsOf(sym) == {sym} \cup (IF sym \in DOMAIN Substrings THEN Substrings[sym] ELSE {})

\* phrase in text
Occurs(phrase, text) == \E i \in DOMAIN text : phrase \in PartsOf(text[i])

(***************************************************************************)
(* Section highlighting: matcher.py 60-69.                                 *)
(***************************************************************************)
skills_section_markers ==
    << <<"SKILLS">>, <<"TECHNICAL", " ", "SKILLS">>, <<"TECHNOLOGIES">>,
       <<"CORE", " ", "COMPETENCIES">>, <<"EXPERTISE">>, <<"PROFICIENCIES">>,
       <<"TECHNICAL", " ", "EXPERTISE">>, <<"TOOLS">> >>

SectionTag == <<">>>SKILLS_SECTION<<<", " ">>

\* str.title() and str.upper() of the words of the markers
TitleCase ==
    ("SKILLS" :> "Skills") @@ ("TECHNICAL" :> "Technical")
    @@ ("TECHNOLOGIES" :> "Technologies") @@ ("CORE" :> "Core")
    @@ ("COMPETENCIES" :> "Competencies") @@ ("EXPERTISE" :> "Expertise")
    @@ ("PROFICIENCIES" :> "Proficiencies") @@ ("TOOLS" :> "Tools")
TitleSym(sym) == IF sym \in DOMAIN TitleCase THEN TitleCase[sym] ELSE sym
Title(text) == [i \in DOMAIN text |-> TitleSym(text[i])]
UpperSym(sym) ==
    IF \E u \in DOMAIN TitleCase : TitleCase[u] = sym
    THEN CHOOSE u \in DOMAIN TitleCase : TitleCase[u] = sym
    ELSE sym
Upper(text) == [i \in DOMAIN text |-> UpperSym(text[i])]

\* str.replace(old, new): every non-overlapping occurrence, left to right
RECURSIVE Replace(_, _, _)
Replace(text, old, new) ==
    IF Len(text) < Len(old) THEN text
    ELSE IF StartsWith(text, old)
         THEN new \o Replace(PyFrom(text, Len(old)), old, new)
         ELSE <<Head(text)>> \o Replace(Tail(text), old, new)

\* lines 67-69 for one marker
HighlightMarker(text, marker) ==
    LET as_given == Replace(text, marker \o <<":">>, SectionTag \o marker \o <<":">>)
        titled == Replace(as_given, Title(marker) \o <<":">>,
                          SectionTag \o Title(marker) \o <<":">>)
    IN  Replace(titled, Upper(marker) \o <<":">>, SectionTag \o Upper(marker) \o <<":">>)

RECURSIVE HighlightFrom(_, _, _)
HighlightFrom(text, markers, i) ==
    IF i > Len(markers) THEN text
    ELSE HighlightFrom(HighlightMarker(text, markers[i]), markers, i + 1)

\* lines 65-69
highlighted_resume(text) == HighlightFrom(text, skills_section_markers, 1)

(***************************************************************************)
(* What a generator call does: it returns text or raises.                  *)
(***************************************************************************)
NoCall == [kind |-> "none"]
Raised(msg) == [kind |-> "raise", msg |-> msg]
Returned(text) == [kind |-> "text", text |-> text]

(***************************************************************************)
(* Profile extraction: matcher.py 53-290.                                  *)
(***************************************************************************)
StrList(strs) == JList([i \in DOMAIN strs |-> JStr(strs[i])])

RECURSIVE DictOf(_, _)
\* the dict literal with the given keys and values, in order
DictOf(keys, vals) ==
    IF keys = <<>> THEN EmptyDict
    ELSE DictPut(DictOf(SubSeq(keys, 1, Len(keys) - 1), SubSeq(vals, 1, Len(vals) - 1)),
                 keys[Len(keys)], vals[Len(vals)])

\* lines 182-185 / 219-222: the vocabulary terms found in the resume
ExtractedSkills(text) ==
    SelectSeq(tech_keywords, LAMBDA kw : Occurs(LowerSym(kw), Lower(text)))

\* lines 219-225
FallbackSkills(text) ==
    IF ExtractedSkills(text) = <<>> THEN <<"Unable to parse skills">>
    ELSE ExtractedSkills(text)

\* lines 227-234: the record built when parsing failed
FallbackProfile(text) ==
    DictOf(<<"ExplicitSkills", "InferredSkills", "Experience", "Education",
             "YearsOfExperience", "ProjectTypes">>,
           <<StrList(FallbackSkills(text)),
             StrList(<<"Git", "GitHub", "CI/CD", "Agile", "REST APIs">>),
             StrList(<<"Unable to parse experience">>),
             StrList(<<"Unable to parse education">>),
             JStr("Unknown"),
             StrList(<<"Software Development">>)>>)

\* line 150: re.search(r'\{[\s\S]*\}', text), greedy: first { to last }
RegexBraceSpan(text) ==
    LET start_idx == Find(text, "{")
        end_idx == RFind(text, "}")
    IN  IF start_idx # -1 /\ end_idx > start_idx
        THEN [found |-> TRUE, span |-> PySlice(text, start_idx, end_idx)]
        ELSE [found |-> FALSE, span |-> <<>>]

\* lines 145-155: direct parse, then the regex scan of the same text
ParseProfile(text) ==
    LET direct == json_loads(text) IN
    IF direct.ok \/ direct.err # "JSONDecodeError" THEN direct
    ELSE LET json_match == RegexBraceSpan(text) IN
         IF json_match.found THEN json_loads(json_match.span) ELSE JSONDecodeError

simple_prompt(r, j) ==
    [kind |-> "simple", resume |-> r, resume_analysis |-> <<>>, job_posting |-> j]
profile_prompt(analysis, j) ==
    [kind |-> "profile", resume |-> <<>>, resume_analysis |-> analysis, job_posting |-> j]

NoProfile == [path |-> "none", record |-> JNull, resume_analysis |-> <<>>]
NoPrompt == [kind |-> "none", resume |-> <<>>, resume_analysis |-> <<>>, job_posting |-> <<>>]

\* the except branch of line 273: the stage's work is dropped
ProfileAborted(path, r, j) ==
    [profile |-> [path |-> path, record |-> JNull, resume_analysis |-> <<>>],
     prompt |-> simple_prompt(r, j)]

\* lines 164-194 on a parsed value; the record is parsed_json as the stage leaves it
ProfileChecks(v, r, j) ==
    IF ~IsDict(v) THEN ProfileAborted("AttributeError", r, j)
    ELSE LET skills == DictGet(v, "ExplicitSkills") IN
         IF Truthy(skills) /\ ~Sized(skills) THEN ProfileAborted("TypeError", r, j)
         ELSE LET merged == IF ~Truthy(skills) /\ ExtractedSkills(r) # <<>>
                            THEN DictPut(v, "ExplicitSkills", StrList(ExtractedSkills(r)))
                            ELSE v
                  experience == DictGet(merged, "Experience")
              IN  IF Truthy(experience) /\ ~Sized(experience)
                  THEN ProfileAborted("TypeError", r, j)
                  ELSE [profile |-> [path |-> IF Truthy(skills) THEN "parsed"
                                              ELSE "parsed_empty_skills",
                                     record |-> merged,
                                     resume_analysis |-> json_dumps(v, 0)],
                        prompt |-> profile_prompt(json_dumps(v, 0), j)]

\* lines 53-290: the profile stage, given what the extraction call did
ProfileStage(r, j, out) ==
    IF out.kind = "raise" THEN ProfileAborted("call_raised", r, j)
    ELSE LET parsed == ParseProfile(NormalizeResponse(Strip(out.text))) IN
         IF parsed.ok THEN ProfileChecks(parsed.v, r, j)
         ELSE IF parsed.err # "JSONDecodeError" THEN ProfileAborted(parsed.err, r, j)
         ELSE [profile |-> [path |-> "synthesized",
                            record |-> FallbackProfile(r),
                            resume_analysis |-> json_dumps(FallbackProfile(r), 0)],
               prompt |-> profile_prompt(json_dumps(FallbackProfile(r), 0), j)]


(***************************************************************************)
(* Verdict extraction: matcher.py 292-380.                                 *)
(***************************************************************************)
\* str(e) of the exceptions json.loads raises besides JSONDecodeError
ExceptionMessage ==
    ("ValueError" :> "Exceeds the limit (4300 digits) for integer string conversion")

\* str(e) of the exceptions the generator call raises
ApiErrors == {"Connection error."}

ErrorPrefix == "Error evaluating match: "

\* lines 377-380
ErrorVerdict(msg) ==
    DictOf(<<"is_match", "reason">>, <<JBool(FALSE), JStr(ErrorPrefix \o msg)>>)

\* the sentiment test with "or" for line 359's "and"
KeywordMatchAnyPhrase(content) ==
    Occurs("match", Lower(content))
      \/ Occurs("good fit", Lower(content)) \/ Occurs("strong match", Lower(content))

\* line 359: the sentiment test on the raw response
KeywordMatch(content) ==
    Occurs("match", Lower(content))
      /\ (Occurs("good fit", Lower(content)) \/ Occurs("strong match", Lower(content)))

ParseFailedReason(is_match) ==
    "Could not parse structured response. "
      \o (IF is_match THEN "Based on keywords, this appears to be a match."
          ELSE "Based on keywords, this does not appear to be a match.")

\* the fallback verdict with the two confidence scores exchanged
FallbackVerdictSwapped(content) ==
    DictOf(<<"is_match", "match_percentage", "matching_skills", "missing_skills", "reason">>,
           <<JBool(KeywordMatch(content)),
             JNum(IF KeywordMatch(content) THEN 30 ELSE 75),
             JList(<<>>), JList(<<>>),
             JStr(ParseFailedReason(KeywordMatch(content)))>>)

\* lines 358-374
FallbackVerdict(content) ==
    DictOf(<<"is_match", "match_percentage", "matching_skills", "missing_skills", "reason">>,
           <<JBool(KeywordMatch(content)),
             JNum(IF KeywordMatch(content) THEN 75 ELSE 30),
             JList(<<>>), JList(<<>>),
             JStr(ParseFailedReason(KeywordMatch(content)))>>)

\* lines 344-345: re.search(r'\{[^\{\}]*"is_match"\s*:\s*(true|false)[^\{\}]*\}',
\* content, re.IGNORECASE) matches at i: a { whose next brace is a } with the
\* key, a colon and a boolean word between them
IsMatchSpanAt(content, i) ==
    /\ content[i] = "{"
    /\ \E j \in (i + 1)..Len(content) :
         /\ content[j] = "}"
         /\ \A k \in (i + 1)..(j - 1) : content[k] \notin {"{", "}"}
         /\ \E a \in (i + 1)..(j - 1) :
              /\ LowerSym(content[a]) = "\"is_match\""
              /\ LET colon == SkipWs(content, a + 1) IN
                 /\ colon < j
                 /\ content[colon] = ":"
                 /\ SkipWs(content, colon + 1) < j
                 /\ LowerSym(content[SkipWs(content, colon + 1)]) \in {"true", "false"}

\* the scan with the greedy pattern of line 150: first { to last }
RegexGreedyObject(content) == RegexBraceSpan(content)

\* re.search: the leftmost match, up to its closing brace
RegexIsMatchObject(content) ==
    LET starts == {i \in 1..Len(content) : IsMatchSpanAt(content, i)} IN
    IF starts = {} THEN [found |-> FALSE, span |-> <<>>]
    ELSE LET i == CHOOSE k \in starts : \A m \in starts : k <= m
             j == CHOOSE k \in (i + 1)..Len(content) :
                    content[k] = "}" /\ \A m \in (i + 1)..(k - 1) : content[m] # "}"
         IN  [found |-> TRUE, span |-> SubSeq(content, i, j)]

\* how evaluate_match ends: the state it ends in, the value it returns and the
\* extraction stage that produced the value
Verdict(state, value, stage) ==
    [state |-> state, kind |-> "return", value |-> value, stage |-> stage]

\* lines 302-374: the verdict extracted from the text the match call returned
VerdictFromText(content) ==
    LET direct == json_loads(NormalizeResponse(content)) IN
    IF direct.ok THEN Verdict("DONE", direct.v, "direct")
    ELSE IF direct.err # "JSONDecodeError"
         THEN Verdict("ERROR", ErrorVerdict(ExceptionMessage[direct.err]), "error")
    ELSE LET match == RegexIsMatchObject(content) IN
         IF match.found /\ json_loads(match.span).ok
         THEN Verdict("DONE", json_loads(match.span).v, "regex")
         ELSE Verdict("DONE", FallbackVerdict(content), "fallback")

\* the verdict stage with an except clause that lets the call's exception out
VerdictStageReraise(out) ==
    IF out.kind = "raise"
    THEN [state |-> "ERROR", kind |-> "raise", value |-> JNull, stage |-> "error"]
    ELSE VerdictFromText(out.text)

\* lines 292-380: the verdict stage, given what the match call did
VerdictStage(out) ==
    IF out.kind = "raise" THEN Verdict("ERROR", ErrorVerdict(out.msg), "error")
    ELSE VerdictFromText(out.text)

(***************************************************************************)
(* The inputs and the generator's answers the model explores.              *)
(***************************************************************************)
\* longest arbitrary response over RawSymbols
MaxRawLen == 3
\* longest prose response over ProseSymbols
MaxProseLen == 3

RECURSIVE SeqsUpTo(_, _)
\* every sequence over S of length at most n
SeqsUpTo(S, n) ==
    IF n = 0 THEN {<<>>}
    ELSE LET shorter == SeqsUpTo(S, n - 1)
         IN  shorter \cup {Append(t, x) : t \in shorter, x \in S}

RECURSIVE Join(_, _)
\* the non-empty parts from the i-th on, comma-separated
Join(parts, i) ==
    IF i > Len(parts) THEN <<>>
    ELSE LET rest == Join(parts, i + 1) IN
         IF parts[i] = <<>> THEN rest
         ELSE IF rest = <<>> THEN parts[i]
         ELSE parts[i] \o <<",", " ">> \o rest

Object(members) == <<"{">> \o Join(members, 1) \o <<"}">>

OverlongInteger == CHOOSE tok \in OverlongIntegers : TRUE

\* resumes: one without vocabulary terms, one with a headed skills line
EvalResumes ==
    { <<"Jane", " ", "Doe">>,
      <<"SKILLS", ":", " ", "PYTHON", ",", " ", "JavaScript">> }
EvalJobs == { <<"Python", " ", "developer">> }

\* answers to the extraction call
ProfileObjects ==
    { Object(<<skills, experience>>) :
        skills \in { <<>>,
                     <<"\"ExplicitSkills\"", ":", " ", "[", "]">>,
                     <<"\"ExplicitSkills\"", ":", " ", "[", "\"Python\"", "]">>,
                     <<"\"ExplicitSkills\"", ":", " ", "5">>,
                     <<"\"ExplicitSkills\"", ":", " ", "null">> },
        experience \in { <<>>,
                         <<"\"Experience\"", ":", " ", "[", "\"Acme - Dev\"", "]">>,
                         <<"\"Experience\"", ":", " ", "5">> } }
ExtractTexts ==
    ProfileObjects
    \cup { <<"'''", "json", "\n">> \o o \o <<"\n", "'''">> :
             o \in { Object(<< <<"\"ExplicitSkills\"", ":", " ", "[", "\"Python\"", "]">> >>) } }
    \cup { <<"Sure">>, <<>>, <<"[", "\"Python\"", "]">>, <<OverlongInteger>>,
           <<"{", "\"ExplicitSkills\"", ":", "[", "\"Python\"", "]">>,
           <<"{", "}", " ", "{", "\"ExplicitSkills\"", ":", "[", "\"Python\"", "]", "}">> }
ExtractOutcomes == {Returned(t) : t \in ExtractTexts} \cup {Raised(m) : m \in ApiErrors}

\* answers to the match call
VerdictObjects ==
    { Object(<<flag, percentage, reason>>) :
        flag \in { <<>>, <<"\"is_match\"", ":", " ", "true">>,
                   <<"\"is_match\"", ":", " ", "false">>,
                   <<"\"is_match\"", ":", " ", "\"yes\"">> },
        percentage \in { <<>>, <<"\"match_percentage\"", ":", " ", "30">>,
                         <<"\"match_percentage\"", ":", " ", "60">> },
        reason \in { <<>>, <<"\"reason\"", ":", " ", "\"r\"">>,
                     <<"\"reason\"", ":", " ", "5">> } }
Prefixes ==
    { <<>>, <<"'''", "json", "\n">>, <<"'''", "JSON", "\n">>, <<"'''", "\n">>,
      <<"Sure", " ">> }
Suffixes == { <<>>, <<"\n", "'''">>, <<" ", "Hope">> }
WrappedObjects == { p \o o \o sfx : p \in Prefixes, o \in VerdictObjects, sfx \in Suffixes }

ProseSymbols == {"Sure", "Match", "Good Fit", "strong match", " "}
RawSymbols == {"{", "}", "\"is_match\"", ":", "true", "'''", "5"}

OddTexts ==
    { <<OverlongInteger>>,
      <<"{", "\"reason\"", ":", OverlongInteger, "}">>,
      <<"{", "\"r\"", ":", "5", "}", " ", "{", "\"is_match\"", ":", "true", "}">>,
      <<"{", "\"r\"", ":", "5", "}", " ", "{", "\"IS_MATCH\"", ":", "TRUE", "}">>,
      <<"{", "\"r\"", ":", "{", "\"is_match\"", ":", " ", "false", "}">>,
      <<"[", "{", "\"is_match\"", ":", "true", "}", "]">>,
      <<"null">> }

\* a text is a sequence of lexemes: two digit runs side by side would be one
\* longer number to the scanner, so no text places them next to each other
Lexed(t) ==
    \A i \in 1..(Len(t) - 1) :
        ~(t[i] \in DOMAIN NumberValue /\ t[i + 1] \in DOMAIN NumberValue)

MatchTexts ==
    WrappedObjects \cup SeqsUpTo(ProseSymbols, MaxProseLen)
      \cup {t \in SeqsUpTo(RawSymbols, MaxRawLen) : Lexed(t)} \cup OddTexts
MatchOutcomes == {Returned(t) : t \in MatchTexts} \cup {Raised(m) : m \in ApiErrors}

(***************************************************************************)
(* One evaluation: evaluate_match, matcher.py 27-380.                      *)
(***************************************************************************)
NoResult == [kind |-> "none", value |-> JNull, stage |-> "none"]
IdleTasks == <<>>

AppIdle ==
    /\ tasks = IdleTasks
    /\ notified = <<>>
    /\ reported = <<>>
    /\ main_pc = "idle"
    /\ completed = <<>>

EvalStart(resumes, jobs) ==
    /\ pc = "START"
    /\ in_resume \in resumes
    /\ in_job \in jobs
    /\ resume = in_resume
    /\ job_posting = in_job
    /\ extract_out = NoCall
    /\ profile = NoProfile
    /\ prompt = NoPrompt
    /\ match_out = NoCall
    /\ result = NoResult
    /\ calls = <<>>

Init == EvalStart(EvalResumes, EvalJobs) /\ AppIdle

\* lines 32-50
BudgetInputs ==
    /\ pc = "START"
    /\ \E pair \in Budgeted(resume, job_posting) :
         /\ resume' = pair[1]
         /\ job_posting' = pair[2]
    /\ pc' = "EXTRACT_PROFILE"
    /\ UNCHANGED <<in_resume, in_job, extract_out, profile, prompt, match_out,
                   result, calls>>
    /\ UNCHANGED appVars

\* lines 53-290: highlight, call the generator, build the match prompt
ExtractProfile ==
    /\ pc = "EXTRACT_PROFILE"
    /\ \E out \in ExtractOutcomes :
         /\ extract_out' = out
         /\ profile' = ProfileStage(resume, job_posting, out).profile
         /\ prompt' = ProfileStage(resume, job_posting, out).prompt
    /\ calls' = Append(calls, [call |-> "extract", content |-> highlighted_resume(resume)])
    /\ pc' = "CALL_GENERATOR"
    /\ UNCHANGED <<in_resume, in_job, resume, job_posting, match_out, result>>
    /\ UNCHANGED appVars

\* the match step with a second call of the generator when no verdict parsed
MatchVerdictRetry ==
    /\ pc = "CALL_GENERATOR"
    /\ \E out \in MatchOutcomes :
         /\ match_out' = out
         /\ result' = [kind |-> VerdictStage(out).kind,
                       value |-> VerdictStage(out).value,
                       stage |-> VerdictStage(out).stage]
         /\ pc' = VerdictStage(out).state
         /\ calls' = IF VerdictStage(out).stage = "fallback"
                     THEN calls \o << [call |-> "match", content |-> prompt],
                                      [call |-> "match", content |-> prompt] >>
                     ELSE Append(calls, [call |-> "match", content |-> prompt])
    /\ UNCHANGED <<in_resume, in_job, resume, job_posting, extract_out, profile, prompt>>
    /\ UNCHANGED appVars

\* lines 292-380: call the generator, extract the verdict, return it
MatchVerdict ==
    /\ pc = "CALL_GENERATOR"
    /\ \E out \in MatchOutcomes :
         /\ match_out' = out
         /\ result' = [kind |-> VerdictStage(out).kind,
                       value |-> VerdictStage(out).value,
                       stage |-> VerdictStage(out).stage]
         /\ pc' = VerdictStage(out).state
    /\ calls' = Append(calls, [call |-> "match", content |-> prompt])
    /\ UNCHANGED <<in_resume, in_job, resume, job_posting, extract_out, profile, prompt>>
    /\ UNCHANGED appVars

Next == BudgetInputs \/ ExtractProfile \/ MatchVerdict

Spec == Init /\ [][Next]_vars

(***************************************************************************)
(* The budgeting step alone, on character-for-character texts around the   *)
(* ceiling.                                                                *)
(***************************************************************************)
\* how far around the ceiling the input lengths spread
MaxSlack == 4

FillerChars == <<"a", "b", "c", "d", "e", "f", "g">>
\* a text of n filler characters
Filler(n) == [i \in 1..n |-> FillerChars[(i % 7) + 1]]

BudgetLengths ==
    {0, 1, 3, 4, 100}
      \cup {4 * max_total_tokens + k : k \in (0 - MaxSlack)..MaxSlack}
      \cup {8 * max_total_tokens + 4 * k : k \in 0..MaxSlack}
BudgetTexts == {Filler(n) : n \in BudgetLengths}

InitBudget == EvalStart(BudgetTexts, BudgetTexts) /\ AppIdle

SpecBudget == InitBudget /\ [][BudgetInputs]_vars

(***************************************************************************)
(* The driver: process_job and main's as_completed loop,                   *)
(* streamlit_app.py 12-20 and 96-110.  scrape_job_content and              *)
(* evaluate_match contain no await, so a task runs from its start to the   *)
(* await of notifier.send_match, or to its end, in one step.  The          *)
(* notifier (src/discord.py) is an external collaborator: send_match is a  *)
(* call that is awaited and completes.                                     *)
(***************************************************************************)
\* most job postings main submits
MaxJobs == 2

\* result[key]: the value, or the exception the subscript raises
Subscript(v, key) ==
    IF ~IsDict(v) THEN [ok |-> FALSE, err |-> "TypeError"]
    ELSE IF key \in DOMAIN v.d THEN [ok |-> TRUE, v |-> v.d[key]]
    ELSE [ok |-> FALSE, err |-> "KeyError"]

\* what the match call of a task's evaluation may do
AppMatchTexts ==
    { Object(<< <<"\"is_match\"", ":", " ", "true">>, <<"\"reason\"", ":", " ", "\"fits\"">> >>),
      Object(<< <<"\"is_match\"", ":", " ", "false">>, <<"\"reason\"", ":", " ", "\"fits\"">> >>),
      Object(<< <<"\"is_match\"", ":", " ", "true">> >>),
      Object(<< <<"\"is_match\"", ":", " ", "false">> >>),
      Object(<< <<"\"match_percentage\"", ":", " ", "80">>,
                <<"\"reason\"", ":", " ", "\"fits\"">> >>),
      <<"Sure">>,
      <<"strong match">> }
AppOutcomes == {Returned(t) : t \in AppMatchTexts} \cup {Raised(m) : m \in ApiErrors}

Created == [pc |-> "created", result |-> JNull, err |-> "none"]
TaskReturned(r) == [pc |-> "returned", result |-> r, err |-> "none"]
TaskRaised(r, err) == [pc |-> "raised", result |-> r, err |-> err]
TaskInSendMatch(r) == [pc |-> "send_match", result |-> r, err |-> "none"]
TaskDone(t) == t.pc \in {"returned", "raised"}

\* lines 96-100: one process_job coroutine per job, handed to as_completed
CreateTasks ==
    /\ main_pc = "idle"
    /\ \E n \in 1..MaxJobs : tasks' = [j \in 1..n |-> Created]
    /\ main_pc' = "as_completed"
    /\ UNCHANGED <<notified, reported, completed>>
    /\ UNCHANGED evalVars

\* lines 14-20: the state of the task after running up to the await of
\* send_match, or to its end, with r the verdict evaluate_match returned
process_job(r) ==
    LET flag == Subscript(r, "is_match")
        reason == Subscript(r, "reason")
    IN  IF ~flag.ok THEN TaskRaised(r, flag.err)
        ELSE IF ~Truthy(flag.v) THEN TaskReturned(r)
        ELSE IF ~reason.ok THEN TaskRaised(r, reason.err)
        ELSE TaskInSendMatch(r)

\* lines 14-18, by the event loop
ProcessJob(j) ==
    /\ main_pc = "as_completed"
    /\ j \in DOMAIN tasks
    /\ tasks[j].pc = "created"
    /\ \E out \in AppOutcomes :
         LET task == process_job(VerdictStage(out).value)
         IN  /\ tasks' = [tasks EXCEPT ![j] = task]
             /\ completed' = IF TaskDone(task) THEN Append(completed, j) ELSE completed
    /\ UNCHANGED <<notified, reported, main_pc>>
    /\ UNCHANGED evalVars

\* lines 18-20: send_match completes and the task returns (job, result)
SendMatch(j) ==
    /\ main_pc = "as_completed"
    /\ j \in DOMAIN tasks
    /\ tasks[j].pc = "send_match"
    /\ notified' = Append(notified, [job |-> j, reason |-> tasks[j].result.d["reason"]])
    /\ tasks' = [tasks EXCEPT ![j] = TaskReturned(tasks[j].result)]
    /\ completed' = Append(completed, j)
    /\ UNCHANGED <<reported, main_pc>>
    /\ UNCHANGED evalVars

\* the tasks still pending when main ends with an exception are cancelled
\* (asyncio.run, line 113)
Cancelled(ts) ==
    [j \in DOMAIN ts |->
        IF TaskDone(ts[j]) THEN ts[j] ELSE [ts[j] EXCEPT !.pc = "cancelled"]]

\* lines 102-110: the next completed task returned; main writes its result.
\* The subscripts of lines 106-107 are evaluated in order: a verdict without
\* "reason" is written up to the Match line and then ends main.
ReportResult ==
    /\ main_pc = "as_completed"
    /\ completed # <<>>
    /\ LET j == Head(completed)
           r == tasks[j].result
           reason == Subscript(r, "reason")
       IN  /\ tasks[j].pc = "returned"
           /\ reported' = Append(reported,
                  [job |-> j, result |-> r,
                   is_match |-> Truthy(r.d["is_match"]), reason_written |-> reason.ok])
           /\ main_pc' = IF ~reason.ok THEN "raised"
                         ELSE IF Len(reported) + 1 = Len(tasks) THEN "complete"
                         ELSE "as_completed"
           /\ tasks' = IF reason.ok THEN tasks ELSE Cancelled(tasks)
    /\ completed' = Tail(completed)
    /\ UNCHANGED notified
    /\ UNCHANGED evalVars

\* line 103: the next completed task raised; await coro raises it in main
AwaitRaises ==
    /\ main_pc = "as_completed"
    /\ completed # <<>>
    /\ tasks[Head(completed)].pc = "raised"
    /\ main_pc' = "raised"
    /\ tasks' = Cancelled(tasks)
    /\ completed' = Tail(completed)
    /\ UNCHANGED <<notified, reported>>
    /\ UNCHANGED evalVars

InitApp == EvalStart({<<"Jane", " ", "Doe">>}, EvalJobs) /\ AppIdle

NextApp ==
    \/ CreateTasks
    \/ \E j \in 1..MaxJobs : ProcessJob(j)
    \/ \E j \in 1..MaxJobs : SendMatch(j)
    \/ ReportResult
    \/ AwaitRaises

SpecApp == InitApp /\ [][NextApp]_vars

(***************************************************************************)
(* The highlighting pass on resumes with section headers: evaluate_match   *)
(* up to the extraction call, matcher.py 27-290.                           *)
(***************************************************************************)
\* header lines: markers as given, title-cased, lower-cased, nested in a
\* longer marker, and a line that is no marker
Headers ==
    { <<"SKILLS">>, <<"Skills">>, <<"skills">>, <<"TECHNICAL", " ", "SKILLS">>,
      <<"Technical", " ", "Skills">>, <<"TOOLS">>, <<"TECHNICAL", " ", "EXPERTISE">>,
      <<"Core", " ", "Competencies">>, <<"Jane">> }

\* resumes of one or two headed lines, and one whose marker has no colon
HighlightResumes ==
    { h \o <<":", " ", "Python">> : h \in Headers }
      \cup { h1 \o <<":", " ", "Python", "\n">> \o h2 \o <<":", " ", "Git">> :
               h1 \in Headers, h2 \in Headers }
      \cup { <<"SKILLS", " ", "Python">> }

InitHighlight == EvalStart(HighlightResumes, EvalJobs) /\ AppIdle

NextHighlight == BudgetInputs \/ ExtractProfile

SpecHighlight == InitHighlight /\ [][NextHighlight]_vars

(***************************************************************************)
(* Claims.                                                                 *)
(***************************************************************************)
Finished == pc \in {"DONE", "ERROR"}

\* the caller's reads result["is_match"] and result["reason"] succeed and
\* give a bool and a str
ReadableVerdict(v) ==
    /\ HasKey(v, "is_match") /\ v.d["is_match"].t = "bool"
    /\ HasKey(v, "reason") /\ v.d["reason"].t = "str"

ErrorReasons ==
    {ErrorPrefix \o m : m \in ApiErrors \cup Range(ExceptionMessage)}
IsErrorVerdict(v) ==
    /\ HasKey(v, "is_match") /\ v.d["is_match"] = JBool(FALSE)
    /\ HasKey(v, "reason") /\ v.d["reason"].t = "str"
    /\ v.d["reason"].s \in ErrorReasons

\* C1: whatever text the two generator calls return, evaluate_match returns
\* a verdict record that holds a boolean is_match and a string reason.
C1_VerdictIsTypedRecord ==
    (Finished /\ extract_out.kind = "text" /\ match_out.kind = "text")
      => (result.kind = "return" /\ ReadableVerdict(result.value))

\* C2 as stated: a raise of either generator call ends the evaluation in
\* ERROR with the error verdict, and nothing is propagated.
C2_AnyRaiseEndsInError ==
    (Finished /\ (extract_out.kind = "raise" \/ match_out.kind = "raise"))
      => (pc = "ERROR" /\ result.kind = "return" /\ IsErrorVerdict(result.value))

\* C2 amended: a raise of the match call ends the evaluation in ERROR with
\* the error verdict (is_match false, the reason carrying the error); a raise
\* of the extraction call does not end it: the match call is still made, with
\* the simplified resume-and-job prompt; neither raise reaches the caller.
C2_RaiseIsReportedOrFallsBack ==
    /\ (pc \in {"CALL_GENERATOR", "DONE", "ERROR"} /\ extract_out.kind = "raise")
         => prompt = simple_prompt(resume, job_posting)
    /\ Finished =>
         /\ result.kind = "return"
         /\ Len(calls) = 2
         /\ calls[2] = [call |-> "match", content |-> prompt]
         /\ (match_out.kind = "raise") =>
              /\ pc = "ERROR"
              /\ IsDict(result.value)
              /\ DOMAIN result.value.d = {"is_match", "reason"}
              /\ result.value.d["is_match"] = JBool(FALSE)
              /\ result.value.d["reason"] = JStr("Error evaluating match: " \o match_out.msg)

C2_Witness ==
    /\ pc = "ERROR" /\ match_out.kind = "raise" /\ extract_out.kind = "raise"
    /\ IsErrorVerdict(result.value)

\* C3: the error verdict is returned only when a generator call raised:
\* when both calls return text, the evaluation never ends in ERROR.
C3_ErrorOnlyWhenCallRaised ==
    (Finished /\ extract_out.kind = "text" /\ match_out.kind = "text")
      => (pc # "ERROR" /\ ~IsErrorVerdict(result.value))

\* C4: inputs over the ceiling leave budgeting with a combined estimate of
\* at most 6000 tokens.
C4_BudgetedWithinCeiling ==
    (pc = "EXTRACT_PROFILE" /\ Len(in_resume) \div 4 + Len(in_job) \div 4 > 6000)
      => Len(resume) \div 4 + Len(job_posting) \div 4 <= 6000

\* C5: inputs whose combined estimate is at most the ceiling leave
\* budgeting unchanged.
C5_BudgetIsIdentityUnderCeiling ==
    (pc # "START" /\ Len(in_resume) \div 4 + Len(in_job) \div 4 <= 6000)
      => (resume = in_resume /\ job_posting = in_job)

C5_Witness ==
    /\ pc = "EXTRACT_PROFILE"
    /\ Len(in_resume) \div 4 + Len(in_job) \div 4 = 6000
    /\ Len(in_resume) > 6000 /\ Len(in_job) > 0
    /\ resume = in_resume /\ job_posting = in_job

\* C6: a valid JSON object returned by the match call, bare, fenced or
\* between brace-free prose, gives the verdict that parsing the bare object
\* gives, whatever the extraction call did.
C6_WrappedObjectParsesAsBare ==
    (Finished /\ match_out.kind = "text") =>
      \A p \in Prefixes, sfx \in Suffixes :
        (/\ Len(match_out.text) >= Len(p) + Len(sfx)
         /\ StartsWith(match_out.text, p)
         /\ EndsWith(match_out.text, sfx)) =>
          LET o == SubSeq(match_out.text, Len(p) + 1, Len(match_out.text) - Len(sfx))
          IN  (o \in VerdictObjects /\ json_loads(o).ok)
                => (result.kind = "return" /\ result.value = json_loads(o).v)

C6_Witness ==
    /\ pc = "DONE" /\ extract_out.kind = "raise" /\ match_out.kind = "text"
    /\ \E o \in VerdictObjects :
         /\ match_out.text = <<"Sure", " ">> \o o \o <<"\n", "'''">>
         /\ result.value = json_loads(o).v
         /\ HasKey(result.value, "is_match") /\ HasKey(result.value, "reason")

IsPlainProse(text) == \A i \in DOMAIN text : text[i] \in ProseSymbols

\* C7: plain prose from the match call gives the keyword verdict: is_match
\* iff the lower-cased text has "match" and also "good fit" or "strong
\* match", 75 or 30 as percentage, empty skill lists, and a reason that says
\* structured parsing failed.
C7_ProseGetsKeywordVerdict ==
    (Finished /\ match_out.kind = "text" /\ IsPlainProse(match_out.text)) =>
      LET lowered == Lower(match_out.text)
          flag == Occurs("match", lowered)
                    /\ (Occurs("good fit", lowered) \/ Occurs("strong match", lowered))
          v == result.value
      IN  /\ result.kind = "return" /\ IsDict(v)
          /\ DOMAIN v.d = {"is_match", "match_percentage", "matching_skills",
                           "missing_skills", "reason"}
          /\ v.d["is_match"] = JBool(flag)
          /\ v.d["match_percentage"] = JNum(IF flag THEN 75 ELSE 30)
          /\ v.d["matching_skills"] = JList(<<>>)
          /\ v.d["missing_skills"] = JList(<<>>)
          /\ v.d["reason"] =
               JStr("Could not parse structured response. Based on keywords, this "
                      \o (IF flag THEN "appears" ELSE "does not appear")
                      \o " to be a match.")

C7_Witness ==
    /\ pc = "DONE" /\ match_out.kind = "text"
    /\ match_out.text = <<"Match", " ", "Good Fit">>
    /\ result.value.d["is_match"] = JBool(TRUE)
    /\ result.value.d["match_percentage"] = JNum(75)

\* C8: whenever the keyword fallback fills the explicit skills (the parse
\* failed, or it gave no explicit skills), the explicit-skills list of the
\* profile is the vocabulary terms found in the resume, or the one sentinel
\* entry when none is found; it is never empty.
C8_FallbackSkillsNeverEmpty ==
    profile.path \in {"synthesized", "parsed_empty_skills"} =>
      /\ HasKey(profile.record, "ExplicitSkills")
      /\ profile.record.d["ExplicitSkills"] =
           StrList(IF ExtractedSkills(resume) = <<>>
                   THEN <<"Unable to parse skills">>
                   ELSE ExtractedSkills(resume))

\* C9 as stated: every returned verdict with a match percentage has
\* is_match = true exactly when the percentage is at least 50.
C9_FlagIffPercentage ==
    (Finished /\ HasKey(result.value, "match_percentage")
       /\ result.value.d["match_percentage"].t = "num") =>
      ((HasKey(result.value, "is_match") /\ result.value.d["is_match"] = JBool(TRUE))
         <=> result.value.d["match_percentage"].n >= 50)

\* C9 amended: every verdict that evaluate_match did not parse out of the
\* generator's response (the keyword-fallback verdict) carries a match
\* percentage and has is_match = true exactly when it is at least 50.
C9_SynthesizedFlagIffPercentage ==
    (Finished /\ result.stage = "fallback") =>
      /\ HasKey(result.value, "match_percentage")
      /\ result.value.d["match_percentage"].t = "num"
      /\ (result.value.d["is_match"] = JBool(TRUE))
           <=> result.value.d["match_percentage"].n >= 50

C9_Witness ==
    /\ pc = "DONE" /\ result.stage = "fallback"
    /\ result.value.d["is_match"] = JBool(TRUE)
    /\ result.value.d["match_percentage"].n >= 50

\* C10: when main has ended, every job whose task returned a verdict that the
\* caller can read has been reported exactly once, with that verdict, whatever
\* the other jobs' evaluations produced and in whatever order they completed.
C10_EveryVerdictReportedOnce ==
    main_pc \in {"complete", "raised"} =>
      \A j \in DOMAIN tasks :
        (tasks[j].pc = "returned" /\ ReadableVerdict(tasks[j].result)) =>
          Cardinality({i \in DOMAIN reported :
                          /\ reported[i].job = j
                          /\ reported[i].result = tasks[j].result
                          /\ reported[i].reason_written}) = 1

\* the value the extraction response parsed to
ParsedProfile == ParseProfile(NormalizeResponse(Strip(extract_out.text))).v

\* C11: when the extraction response parses to an object without explicit
\* skills and the keyword scan of the resume finds a term, the profile
\* embedded in the match prompt is the parsed object with ExplicitSkills set
\* to the found terms.
C11_RecoveredSkillsReachPrompt ==
    (/\ pc \in {"CALL_GENERATOR", "DONE", "ERROR"}
     /\ profile.path = "parsed_empty_skills"
     /\ ExtractedSkills(resume) # <<>>) =>
      /\ prompt.kind = "profile"
      /\ json_loads(prompt.resume_analysis).ok
      /\ json_loads(prompt.resume_analysis).v =
           DictPut(ParsedProfile, "ExplicitSkills", StrList(ExtractedSkills(resume)))

\* C12: whenever the extraction call returned text, a candidate profile was
\* produced and the match call is made with the profile prompt embedding it;
\* the simplified prompt is used only when the call raised.
C12_TextAlwaysGivesProfilePrompt ==
    (pc \in {"CALL_GENERATOR", "DONE", "ERROR"} /\ extract_out.kind = "text") =>
      /\ IsDict(profile.record)
      /\ prompt = profile_prompt(profile.resume_analysis, job_posting)
      /\ json_loads(prompt.resume_analysis).ok

\* the first and the last floor(target / 2) characters around the marker
KeptHalves(text, target) ==
    IF Len(text) <= target THEN text
    ELSE SubSeq(text, 1, target \div 2) \o TruncationMarker
           \o SubSeq(text, Len(text) - (target \div 2) + 1, Len(text))

\* C13: a text longer than its target T leaves budgeting as its first
\* floor(T/2) characters, the marker, and its last floor(T/2) characters,
\* for every T >= 0 (T = 0 and T = 1 included).
C13_TruncationKeepsHalves ==
    (pc = "EXTRACT_PROFILE" /\ Len(in_resume) \div 4 + Len(in_job) \div 4 > 6000) =>
      \E max_resume_chars \in ScaledChars(Len(in_resume),
                                          Len(in_resume) \div 4 + Len(in_job) \div 4),
         max_job_chars \in ScaledChars(Len(in_job),
                                       Len(in_resume) \div 4 + Len(in_job) \div 4) :
        /\ resume = KeptHalves(in_resume, max_resume_chars)
        /\ job_posting = KeptHalves(in_job, max_job_chars)

\* a marker, as given, title-cased or upper-cased, and its colon start at i
HeaderAt(text, i) ==
    \E k \in DOMAIN skills_section_markers :
      \E variant \in { skills_section_markers[k], Title(skills_section_markers[k]),
                       Upper(skills_section_markers[k]) } :
        StartsWith(PyFrom(text, i - 1), variant \o <<":">>)

RECURSIVE TagHeaders(_, _)
\* the text from i on with one tag before every marker that starts there
TagHeaders(text, i) ==
    IF i > Len(text) THEN <<>>
    ELSE (IF HeaderAt(text, i) THEN SectionTag ELSE <<>>)
           \o <<text[i]>> \o TagHeaders(text, i + 1)

\* C14: the highlighted resume sent to the extraction call is the resume
\* with the tag placed once, immediately before each marker-and-colon, and
\* nothing else changed.
C14_EveryHeaderTaggedOnce ==
    pc = "CALL_GENERATOR" => calls[1].content = TagHeaders(resume, 1)

\* the sequence with its a-th and b-th entries exchanged
Swapped(seq, a, b) == [seq EXCEPT ![a] = seq[b], ![b] = seq[a]]

\* the marker list in the code's order and with any two markers exchanged
MarkerOrders ==
    { Swapped(skills_section_markers, a, b) :
        a \in DOMAIN skills_section_markers, b \in DOMAIN skills_section_markers }

\* C15: whatever the order of the marker list, the pass produces the
\* highlighted text the code's order produces.
C15_HighlightOrderIndependent ==
    pc = "CALL_GENERATOR" =>
      \A order \in MarkerOrders : HighlightFrom(resume, order, 1) = calls[1].content

\* the {...} spans of a text that parse strictly
ParsableSpans(text) ==
    { span \in { SubSeq(text, i, j) : i \in DOMAIN text, j \in DOMAIN text } :
        /\ Len(span) >= 2
        /\ span[1] = "{" /\ span[Len(span)] = "}"
        /\ json_loads(span).ok }

\* the direct parse of the normalized response failed as malformed JSON
DirectParseFailed(out) ==
    /\ out.kind = "text"
    /\ ~json_loads(NormalizeResponse(out.text)).ok
    /\ json_loads(NormalizeResponse(out.text)).err = "JSONDecodeError"

\* C16 as stated: at both sites, when the direct parse fails and the raw
\* response holds a parsable object, the regex stage recovers an object of
\* the raw response.
C16_MisslicedObjectRecovered ==
    /\ (/\ pc \in {"CALL_GENERATOR", "DONE", "ERROR"}
        /\ DirectParseFailed(extract_out)
        /\ ParsableSpans(extract_out.text) # {}) =>
         /\ profile.path \in {"parsed", "parsed_empty_skills"}
         /\ \E span \in ParsableSpans(extract_out.text) : ParsedProfile = json_loads(span).v
    /\ (/\ Finished
        /\ DirectParseFailed(match_out)
        /\ ParsableSpans(match_out.text) # {}) =>
         /\ result.stage = "regex"
         /\ \E span \in ParsableSpans(match_out.text) : result.value = json_loads(span).v

\* the leftmost brace-free {...} span of the text that holds "is_match", a
\* colon and true or false in any case
LeftmostIsMatchSpan(text) ==
    LET starts == {i \in DOMAIN text : IsMatchSpanAt(text, i)}
        i == CHOOSE k \in starts : \A m \in starts : k <= m
        j == CHOOSE k \in (i + 1)..Len(text) :
               text[k] = "}" /\ \A m \in (i + 1)..(k - 1) : text[m] # "}"
    IN  IF starts = {} THEN <<>> ELSE SubSeq(text, i, j)

\* C16 amended: when the direct parse fails, the verdict site recovers the
\* leftmost brace-free {...} span of the raw response that holds an is_match
\* boolean, when that span parses, and otherwise synthesizes the keyword
\* verdict; the profile site recovers nothing: its scan of the normalized
\* text yields the span that has just failed, and the profile is synthesized.
C16_RegexStageRecoversIsMatchSpan ==
    /\ (pc \in {"CALL_GENERATOR", "DONE", "ERROR"} /\ DirectParseFailed(extract_out))
         => profile.path = "synthesized"
    /\ (Finished /\ DirectParseFailed(match_out)) =>
         LET span == LeftmostIsMatchSpan(match_out.text) IN
         IF span # <<>> /\ json_loads(span).ok
         THEN result.stage = "regex" /\ result.value = json_loads(span).v
         ELSE result.stage = "fallback"
    /\ (Finished /\ result.stage = "regex") => DirectParseFailed(match_out)

C16_Witness ==
    /\ pc = "DONE"
    /\ result.stage = "regex"
    /\ result.value = DictOf(<<"is_match">>, <<JBool(TRUE)>>)
    /\ profile.path = "synthesized"
    /\ DirectParseFailed(extract_out) /\ ParsableSpans(extract_out.text) # {}
    /\ DirectParseFailed(match_out)
    /\ Cardinality(ParsableSpans(match_out.text)) = 2

\* C17: the generator is called exactly twice in an evaluation, the
\* extraction call and then the match call; no parse failure and no
\* exception brings another call.
C17_GeneratorCalledTwiceInOrder ==
    /\ pc \in {"START", "EXTRACT_PROFILE"} => calls = <<>>
    /\ pc = "CALL_GENERATOR" => (Len(calls) = 1 /\ calls[1].call = "extract")
    /\ Finished =>
         /\ Len(calls) = 2
         /\ calls[1].call = "extract"
         /\ calls[2].call = "match"

C17_Witness ==
    /\ pc = "DONE"
    /\ extract_out.kind = "raise"
    /\ result.stage = "fallback"
    /\ Len(calls) = 2 /\ calls[1].call = "extract" /\ calls[2].call = "match"

\* C18: for every job whose task has ended, a notification was sent exactly
\* when the verdict's is_match is true, at most once, and before the job's
\* result was reported; no other verdict is notified.
C18_NotifiedIffFlagTrue ==
    \A j \in DOMAIN tasks :
      LET r == tasks[j].result
          flag == HasKey(r, "is_match") /\ r.d["is_match"] = JBool(TRUE)
          sent == {i \in DOMAIN notified : notified[i].job = j}
      IN  /\ Cardinality(sent) <= 1
          /\ sent # {} => flag
          /\ (tasks[j].pc \in {"returned", "raised"} /\ flag) => sent # {}
          /\ ((\E i \in DOMAIN reported : reported[i].job = j) /\ flag) => sent # {}

\* C19: each text handed on by budgeting is no longer than the text passed in.
C19_BudgetNeverLengthens ==
    pc = "EXTRACT_PROFILE" =>
      (Len(resume) <= Len(in_resume) /\ Len(job_posting) <= Len(in_job))
====
